---- MODULE Spec2Model ----
(***************************************************************************)
(* State-machine model of treasure-hunt-game.py: the TreasureHuntGame      *)
(* object (grid, player, inventory, score, log), its save file, the        *)
(* high-score file and the play_game command loop.                         *)
(*                                                                         *)
(* Positions are <<row, col>> with 0-based coordinates as in the Python    *)
(* code; the grid is a sequence of rows, so cell (r, c) is grid[r+1][c+1]. *)
(* Wall-clock readings (start_time, the [HH:MM:SS] prefix of a log line,   *)
(* saved_at, the date of a high score) are not modelled: no operation      *)
(* branches on them.  A log line is the record of its event and arguments. *)
(* What a call prints is not modelled either; ret holds the last call that *)
(* returns a success flag, with its argument and the value returned.       *)
(***************************************************************************)
EXTENDS Integers, Sequences, FiniteSets, TLC

VARIABLES
    player_name,   \* self.player_name
    grid_size,     \* self.grid_size
    score,         \* self.score
    moves,         \* self.moves
    game_over,     \* self.game_over
    grid,          \* self.grid
    player_pos,    \* self.player_pos
    inventory,     \* self.inventory
    game_log,      \* self.game_log
    saved_game,    \* the file saved_game.json
    high_scores,   \* the file high_scores.json
    calls,         \* how many times check_high_scores has been called
    ret,           \* the last call: its name, argument and return value
    placing,       \* inside __init__: the _place_random_items calls still
                   \* to make and the items placed by the current one
    pc             \* who drives the game: "api" (a caller of the class) or
                   \* the position of play_game ("loop", "done"), or
                   \* "scores" (callers of check_high_scores alone), or
                   \* "__init__" / "built" (the constructor at work / done)

gameVars == <<player_name, grid_size, score, moves, game_over, grid,
              player_pos, inventory, game_log>>
fileVars == <<saved_game, high_scores, calls>>
vars == <<player_name, grid_size, score, moves, game_over, grid, player_pos,
          inventory, game_log, saved_game, high_scores, calls, ret,
          placing, pc>>

\* ------------------------------------------------------------ bounds
\* No call that logs is made once the log holds MaxLog lines.
MaxLog == 8
\* Once a save file has been written the log is kept to MaxSavedLog lines,
\* and only a game whose log is that short is saved.
MaxSavedLog == 7
\* check_high_scores is called at most MaxCalls times in SpecHS.
MaxCalls == 6

\* --------------------------------------------------- program constants
DefaultGridSize == 5
TreasurePoints == 100
TrapPenalty == 50
ExitBonus == 200
TopN == 5
RecentEvents == 5

Directions == {"up", "down", "left", "right"}
\* Any other string is an invalid direction; "jump" stands for them.
DirectionInputs == Directions \cup {"jump"}

None == [none |-> TRUE]

\* ------------------------------------------------------------- grid
CellAt(g, pos) == g[pos[1] + 1][pos[2] + 1]

SetCell(g, pos, v) == [g EXCEPT ![pos[1] + 1][pos[2] + 1] = v]

Positions(n) == (0 .. n - 1) \X (0 .. n - 1)

CountCells(g, sym) ==
    Cardinality({p \in Positions(Len(g)) : CellAt(g, p) = sym})

\* Grids that _place_items can leave behind on a 5 x 5 board: 3 T, 4 X,
\* 2 K, 2 S, 1 M and 1 E on cells that were empty.
Layout1 ==
    << << " ", "K", "E", " ", " " >>,
       << "T", " ", "M", " ", " " >>,
       << "X", "S", "X", "T", " " >>,
       << "X", " ", " ", "K", "S" >>,
       << " ", "X", "T", " ", " " >> >>

Layouts == {Layout1}

\* Starting cells drawn by random.randint; items avoid the player's cell.
StartPositions == { <<1, 1>> }

PlayerNames == {"ann"}

\* -------------------------------------------------------------- log
LogLine(event, args) == [event |-> event, args |-> args]

_log_event(log, event, args) == Append(log, LogLine(event, args))

\* ------------------------------------------------------ construction
NewInventory == [k \in {"keys", "shields", "maps"} |-> 0]

NewLog == _log_event(<< >>, "Game started", << >>)

\* ---------------------------------------------------------- display
Abs(x) == IF x < 0 THEN -x ELSE x

UsedMap(inv) == IF "used_map" \in DOMAIN inv THEN inv["used_map"] ELSE FALSE

\* Fault variant of RenderCell: only the four orthogonal neighbours count
\* as adjacent.
RenderCell_Orthogonal(g, pos, inv, i, j, reveal_all) ==
    IF <<i, j>> = pos THEN "P"
    ELSE IF reveal_all THEN CellAt(g, <<i, j>>)
    ELSE LET is_adjacent == Abs(i - pos[1]) + Abs(j - pos[2]) <= 1
         IN  IF is_adjacent \/ UsedMap(inv) THEN CellAt(g, <<i, j>>) ELSE "?"

RenderCell(g, pos, inv, i, j, reveal_all) ==
    IF <<i, j>> = pos THEN "P"
    ELSE IF reveal_all THEN CellAt(g, <<i, j>>)
    ELSE LET is_adjacent == Abs(i - pos[1]) <= 1 /\ Abs(j - pos[2]) <= 1
         IN  IF is_adjacent \/ UsedMap(inv) THEN CellAt(g, <<i, j>>) ELSE "?"

\* The rows display_grid prints for the game as it stands.
Render(reveal_all) ==
    [i \in 1 .. grid_size |-> [j \in 1 .. grid_size |->
        RenderCell(grid, player_pos, inventory, i - 1, j - 1, reveal_all)]]

\* display_grid clears the console and prints the picture, which has to
\* be defined for the game as it stands; it assigns to no field.
display_grid(reveal_all) ==
    /\ Len(Render(reveal_all)) = grid_size
    /\ UNCHANGED <<gameVars, fileVars, ret>>

\* ------------------------------------------------------------- moves
CanMove(direction, pos, n) ==
    \/ direction = "up" /\ pos[1] > 0
    \/ direction = "down" /\ pos[1] < n - 1
    \/ direction = "left" /\ pos[2] > 0
    \/ direction = "right" /\ pos[2] < n - 1

NewPos(direction, pos) ==
    CASE direction = "up" -> <<pos[1] - 1, pos[2]>>
      [] direction = "down" -> <<pos[1] + 1, pos[2]>>
      [] direction = "left" -> <<pos[1], pos[2] - 1>>
      [] direction = "right" -> <<pos[1], pos[2] + 1>>
      [] OTHER -> pos

\* The part of the game an item interaction may change.
Touched == [score |-> score, inventory |-> inventory, grid |-> grid,
            game_over |-> game_over, game_log |-> game_log]

\* Fault variant of OnTreasure: the treasure is left on its cell.
OnTreasure_KeepsCell(s, position) ==
    [s EXCEPT !.score = @ + TreasurePoints,
              !.game_log = _log_event(@, "Found treasure", position)]

OnTreasure(s, position) ==
    [s EXCEPT !.score = @ + TreasurePoints,
              !.game_log = _log_event(@, "Found treasure", position),
              !.grid = SetCell(@, position, " ")]

\* Fault variant of OnTrap: the shield is spent and the penalty taken too.
OnTrap_ShieldAndPenalty(s, position) ==
    IF s.inventory["shields"] > 0
    THEN [s EXCEPT !.inventory["shields"] = @ - 1,
                   !.score = @ - TrapPenalty,
                   !.game_log = _log_event(@, "Shield used against trap", position),
                   !.grid = SetCell(@, position, " ")]
    ELSE [s EXCEPT !.score = @ - TrapPenalty,
                   !.game_log = _log_event(@, "Hit by trap", position),
                   !.grid = SetCell(@, position, " ")]

OnTrap(s, position) ==
    IF s.inventory["shields"] > 0
    THEN [s EXCEPT !.inventory["shields"] = @ - 1,
                   !.game_log = _log_event(@, "Shield used against trap", position),
                   !.grid = SetCell(@, position, " ")]
    ELSE [s EXCEPT !.score = @ - TrapPenalty,
                   !.game_log = _log_event(@, "Hit by trap", position),
                   !.grid = SetCell(@, position, " ")]

\* Fault variant of OnPickup: the item is left on its cell.
OnPickup_KeepsCell(s, position, slot, event) ==
    [s EXCEPT !.inventory[slot] = @ + 1,
              !.game_log = _log_event(@, event, position)]

OnPickup(s, position, slot, event) ==
    [s EXCEPT !.inventory[slot] = @ + 1,
              !.game_log = _log_event(@, event, position),
              !.grid = SetCell(@, position, " ")]

\* Fault variant of OnExit: opening the exit uses up a key.
OnExit_SpendsKey(s) ==
    IF s.inventory["keys"] >= 1
    THEN [s EXCEPT !.score = @ + ExitBonus,
                   !.inventory["keys"] = @ - 1,
                   !.game_log = _log_event(@, "Reached exit with key - Victory!", << >>),
                   !.game_over = TRUE]
    ELSE [s EXCEPT !.game_log = _log_event(@, "Found exit but no key", << >>)]

\* Fault variant of OnExit: the exit opens without a key.
OnExit_NoKeyCheck(s) ==
    [s EXCEPT !.score = @ + ExitBonus,
              !.game_log = _log_event(@, "Reached exit with key - Victory!", << >>),
              !.game_over = TRUE]

\* Fault variant of OnExit: game_over is flipped instead of set.
OnExit_Toggles(s) ==
    IF s.inventory["keys"] >= 1
    THEN [s EXCEPT !.score = @ + ExitBonus,
                   !.game_log = _log_event(@, "Reached exit with key - Victory!", << >>),
                   !.game_over = ~@]
    ELSE [s EXCEPT !.game_log = _log_event(@, "Found exit but no key", << >>)]

\* Fault variant of OnExit: the exit is consumed like any other item.
OnExit_ClearsCell(s) ==
    IF s.inventory["keys"] >= 1
    THEN [s EXCEPT !.score = @ + ExitBonus,
                   !.game_log = _log_event(@, "Reached exit with key - Victory!", << >>),
                   !.game_over = TRUE,
                   !.grid = [i \in DOMAIN @ |-> [j \in DOMAIN @[i] |->
                                IF @[i][j] = "E" THEN " " ELSE @[i][j]]]]
    ELSE [s EXCEPT !.game_log = _log_event(@, "Found exit but no key", << >>)]

OnExit(s) ==
    IF s.inventory["keys"] >= 1
    THEN [s EXCEPT !.score = @ + ExitBonus,
                   !.game_log = _log_event(@, "Reached exit with key - Victory!", << >>),
                   !.game_over = TRUE]
    ELSE [s EXCEPT !.game_log = _log_event(@, "Found exit but no key", << >>)]

_handle_item_interaction(s, item, position) ==
    CASE item = "T" -> OnTreasure(s, position)
      [] item = "X" -> OnTrap(s, position)
      [] item = "K" -> OnPickup(s, position, "keys", "Found key")
      [] item = "S" -> OnPickup(s, position, "shields", "Found shield")
      [] item = "M" -> OnPickup(s, position, "maps", "Found map")
      [] item = "E" -> OnExit(s)
      [] OTHER -> s

\* Fault variant of InvalidMove: the refused move is counted.
InvalidMove_CountsMove(direction) ==
    /\ game_log' = _log_event(game_log, "Invalid move", <<direction>>)
    /\ ret' = [op |-> "move_player", arg |-> direction, val |-> FALSE]
    /\ moves' = moves + 1
    /\ UNCHANGED <<player_name, grid_size, score, game_over, grid,
                   player_pos, inventory>>

\* The else branch of move_player: the move is refused.
InvalidMove(direction) ==
    /\ game_log' = _log_event(game_log, "Invalid move", <<direction>>)
    /\ ret' = [op |-> "move_player", arg |-> direction, val |-> FALSE]
    /\ UNCHANGED <<player_name, grid_size, score, moves, game_over, grid,
                   player_pos, inventory>>

\* The rest of move_player, once new_pos is known to lie on the grid.
ValidMove(direction) ==
    LET new_pos == NewPos(direction, player_pos)
        item == CellAt(grid, new_pos)
        s == _handle_item_interaction(Touched, item, new_pos)
    IN  /\ moves' = moves + 1
        /\ score' = s.score
        /\ inventory' = s.inventory
        /\ grid' = s.grid
        /\ game_over' = s.game_over
        /\ player_pos' = new_pos
        /\ game_log' = _log_event(s.game_log, "Moved",
                                  <<direction, new_pos[1], new_pos[2]>>)
        /\ ret' = [op |-> "move_player", arg |-> direction, val |-> TRUE]
        /\ UNCHANGED <<player_name, grid_size>>

move_player(direction) ==
    /\ IF CanMove(direction, player_pos, grid_size)
       THEN ValidMove(direction)
       ELSE InvalidMove(direction)
    /\ UNCHANGED fileVars

\* --------------------------------------------------------------- map
\* Fault variant of AfterMap: "used_map" is left set.
AfterMap_LeavesFlag(inv) ==
    [k \in DOMAIN inv \cup {"used_map"} |->
        IF k = "used_map" THEN TRUE
        ELSE IF k = "maps" THEN inv[k] - 1 ELSE inv[k]]

\* The inventory use_map leaves behind: one map fewer, and the key
\* "used_map" (set for the time of the reveal) back to False.
AfterMap(inv) ==
    [k \in DOMAIN inv \cup {"used_map"} |->
        IF k = "used_map" THEN FALSE
        ELSE IF k = "maps" THEN inv[k] - 1 ELSE inv[k]]

use_map ==
    /\ IF inventory["maps"] > 0
       THEN /\ inventory' = AfterMap(inventory)
            /\ game_log' = _log_event(game_log, "Used map item", << >>)
            /\ ret' = [op |-> "use_map", arg |-> None, val |-> TRUE]
       ELSE /\ ret' = [op |-> "use_map", arg |-> None, val |-> FALSE]
            /\ UNCHANGED <<inventory, game_log>>
    /\ UNCHANGED <<player_name, grid_size, score, moves, game_over, grid,
                   player_pos, fileVars>>

\* ------------------------------------------------------------ reports
get_status ==
    [player_name |-> player_name, score |-> score, moves |-> moves,
     inventory |-> inventory, game_over |-> game_over]

Max(a, b) == IF a >= b THEN a ELSE b

LastLines(log, n) == SubSeq(log, Max(1, Len(log) - n + 1), Len(log))

\* efficiency is the quotient score / max(1, moves), kept as the pair.
generate_game_report ==
    [player |-> player_name, final_score |-> score, moves_made |-> moves,
     keys |-> inventory["keys"], shields |-> inventory["shields"],
     maps |-> inventory["maps"], efficiency |-> <<score, Max(1, moves)>>,
     recent |-> LastLines(game_log, RecentEvents)]

\* -------------------------------------------------------------- JSON
\* A JSON document as json.dump writes it: a tree of tagged values.
JNum(n) == [type |-> "number", val |-> n]
JStr(x) == [type |-> "string", val |-> x]
JBool(b) == [type |-> "bool", val |-> b]
JArr(items) == [type |-> "array", items |-> items]
JObj(members) == [type |-> "object", members |-> members]

JNumPair(pos) == JArr([i \in DOMAIN pos |-> JNum(pos[i])])

JRow(row) == JArr([i \in DOMAIN row |-> JStr(row[i])])

JGrid(g) == JArr([i \in DOMAIN g |-> JRow(g[i])])

JLog(log) == JArr([i \in DOMAIN log |-> JStr(log[i])])

\* An inventory holds counts, and after use_map the boolean "used_map".
JInventory(inv) ==
    JObj([k \in DOMAIN inv |->
            IF k = "used_map" THEN JBool(inv[k]) ELSE JNum(inv[k])])

\* What json.load makes of a document.
RECURSIVE FromJson(_)
FromJson(j) ==
    CASE j.type = "array" -> [i \in DOMAIN j.items |-> FromJson(j.items[i])]
      [] j.type = "object" ->
            [k \in DOMAIN j.members |-> FromJson(j.members[k])]
      [] OTHER -> j.val

\* --------------------------------------------------------- save, load
\* game_data of save_game, as written to the file.
GameData ==
    JObj([player_name |-> JStr(player_name),
          grid_size |-> JNum(grid_size),
          score |-> JNum(score),
          moves |-> JNum(moves),
          player_pos |-> JNumPair(player_pos),
          grid |-> JGrid(grid),
          inventory |-> JInventory(inventory),
          game_log |-> JLog(game_log)])

save_game ==
    /\ saved_game' = [kind |-> "json", doc |-> GameData]
    /\ ret' = [op |-> "save_game", arg |-> None, val |-> TRUE]
    /\ UNCHANGED <<gameVars, high_scores, calls>>

\* Fault variant of LoadedGame: game_over is worked out from the saved
\* position, as if a game saved on the Exit with a key were still over.
LoadedGame_InfersGameOver(game_data) ==
    [player_name |-> game_data.player_name,
     grid_size |-> game_data.grid_size,
     game_over |-> /\ CellAt(game_data.grid, game_data.player_pos) = "E"
                   /\ game_data.inventory["keys"] >= 1,
     score |-> game_data.score,
     moves |-> game_data.moves,
     player_pos |-> game_data.player_pos,
     grid |-> game_data.grid,
     inventory |-> game_data.inventory,
     game_log |-> _log_event(game_data.game_log, "Game loaded from",
                             <<"saved_game.json">>)]

\* Fault variant of LoadedGame: the grid of the newly constructed game is
\* kept instead of the saved one.
LoadedGame_KeepsNewGrid(game_data) ==
    [player_name |-> game_data.player_name,
     grid_size |-> game_data.grid_size,
     game_over |-> FALSE,
     score |-> game_data.score,
     moves |-> game_data.moves,
     player_pos |-> game_data.player_pos,
     grid |-> Layout1,
     inventory |-> game_data.inventory,
     game_log |-> _log_event(game_data.game_log, "Game loaded from",
                             <<"saved_game.json">>)]

\* The game load_game builds from game_data: a newly constructed game
\* (game_over False) whose generated fields are overwritten.
LoadedGame(game_data) ==
    [player_name |-> game_data.player_name,
     grid_size |-> game_data.grid_size,
     game_over |-> FALSE,
     score |-> game_data.score,
     moves |-> game_data.moves,
     player_pos |-> game_data.player_pos,
     grid |-> game_data.grid,
     inventory |-> game_data.inventory,
     game_log |-> _log_event(game_data.game_log, "Game loaded from",
                             <<"saved_game.json">>)]

\* Fault variant of load_game: when the file cannot be read the caller is
\* handed a newly constructed game instead of None.
load_game_FailureResets ==
    /\ IF saved_game.kind = "json"
       THEN LET game == LoadedGame(FromJson(saved_game.doc))
            IN  /\ player_name' = game.player_name
                /\ grid_size' = game.grid_size
                /\ game_over' = game.game_over
                /\ score' = game.score
                /\ moves' = game.moves
                /\ player_pos' = game.player_pos
                /\ grid' = game.grid
                /\ inventory' = game.inventory
                /\ game_log' = game.game_log
                /\ ret' = [op |-> "load_game", arg |-> None, val |-> TRUE]
       ELSE /\ ret' = [op |-> "load_game", arg |-> None, val |-> FALSE]
            /\ score' = 0
            /\ moves' = 0
            /\ game_over' = FALSE
            /\ grid' = Layout1
            /\ player_pos' = <<1, 1>>
            /\ inventory' = NewInventory
            /\ game_log' = NewLog
            /\ UNCHANGED <<player_name, grid_size>>
    /\ UNCHANGED fileVars

load_game ==
    /\ IF saved_game.kind = "json"
       THEN LET game == LoadedGame(FromJson(saved_game.doc))
            IN  /\ player_name' = game.player_name
                /\ grid_size' = game.grid_size
                /\ game_over' = game.game_over
                /\ score' = game.score
                /\ moves' = game.moves
                /\ player_pos' = game.player_pos
                /\ grid' = game.grid
                /\ inventory' = game.inventory
                /\ game_log' = game.game_log
                /\ ret' = [op |-> "load_game", arg |-> None, val |-> TRUE]
       ELSE /\ ret' = [op |-> "load_game", arg |-> None, val |-> FALSE]
            /\ UNCHANGED gameVars
    /\ UNCHANGED fileVars

\* ------------------------------------------------------- high scores
Min(a, b) == IF a <= b THEN a ELSE b

JEntry(e) == JObj([player |-> JStr(e.player), score |-> JNum(e.score)])

JEntries(list) == JArr([i \in DOMAIN list |-> JEntry(list[i])])

\* The list read from the file, or the empty list when there is none.
ReadHighScores(file) ==
    IF file.kind = "json" THEN FromJson(file.doc) ELSE << >>

\* e put into a list sorted by descending score, behind its equals.
InsertByScore(sorted, e) ==
    LET k == Cardinality({i \in DOMAIN sorted : sorted[i].score >= e.score})
    IN  SubSeq(sorted, 1, k) \o <<e>> \o SubSeq(sorted, k + 1, Len(sorted))

\* list.sort(key=score, reverse=True): stable, so equal scores keep their
\* order and a newly appended entry comes last among its equals.
RECURSIVE SortByScoreDesc(_)
SortByScoreDesc(seq) ==
    IF Len(seq) = 0 THEN << >>
    ELSE InsertByScore(SortByScoreDesc(SubSeq(seq, 1, Len(seq) - 1)),
                       seq[Len(seq)])

\* Fault variant of KeepTop: one entry too many is kept.
KeepTop_OneMore(sorted) == SubSeq(sorted, 1, Min(TopN + 1, Len(sorted)))

\* high_scores[:5]
KeepTop(sorted) == SubSeq(sorted, 1, Min(TopN, Len(sorted)))

\* The list check_high_scores writes back.
NewHighScores(old, entry) == KeepTop(SortByScoreDesc(Append(old, entry)))

\* The value check_high_scores returns.
IsHighScore(kept, name, points) ==
    \E i \in DOMAIN kept : kept[i].player = name /\ kept[i].score = points

check_high_scores(name, points) ==
    LET old == ReadHighScores(high_scores)
        kept == NewHighScores(old, [player |-> name, score |-> points])
    IN  /\ high_scores' = [kind |-> "json", doc |-> JEntries(kept)]
        /\ ret' = [op |-> "check_high_scores", arg |-> <<name, points>>,
                   val |-> IsHighScore(kept, name, points)]
        /\ calls' = calls + 1
        /\ UNCHANGED <<gameVars, saved_game>>

\* display_high_scores prints the list in the file; it assigns nothing.
display_high_scores ==
    /\ Len(ReadHighScores(high_scores)) >= 0
    /\ UNCHANGED <<gameVars, fileVars, ret>>

\* ------------------------------------------------------ initial state
\* A game as __init__ leaves it.
NewGame(name, layout, start) ==
    /\ player_name = name
    /\ grid_size = DefaultGridSize
    /\ score = 0
    /\ moves = 0
    /\ game_over = FALSE
    /\ grid = layout
    /\ player_pos = start
    /\ inventory = NewInventory
    /\ game_log = NewLog
    /\ ret = [op |-> "__init__", arg |-> None, val |-> None]

Init ==
    /\ \E name \in PlayerNames, layout \in Layouts, start \in StartPositions :
            NewGame(name, layout, start)
    /\ saved_game \in {[kind |-> "missing"], [kind |-> "corrupt"]}
    /\ high_scores = [kind |-> "missing"]
    /\ calls = 0
    /\ placing = None
    /\ pc \in {"api", "loop"}

\* ------------------------------------------- a caller of the class
\* The model follows one game; after a successful load_game it follows
\* the game returned.
LogBound == IF saved_game.kind = "json" THEN MaxSavedLog ELSE MaxLog

\* A call appends at most two lines to the log.
HasRoom == Len(game_log) + 2 <= LogBound

MaySave == Len(game_log) <= MaxSavedLog

SavedLogHasRoom ==
    saved_game.kind = "json" =>
        Len(FromJson(saved_game.doc).game_log) < MaxSavedLog

ApiMove ==
    /\ pc = "api" /\ HasRoom
    /\ \E d \in DirectionInputs : move_player(d)
    /\ UNCHANGED <<pc, placing>>

ApiMap == pc = "api" /\ HasRoom /\ use_map /\ UNCHANGED <<pc, placing>>

ApiSave == pc = "api" /\ MaySave /\ save_game /\ UNCHANGED <<pc, placing>>

ApiLoad == pc = "api" /\ SavedLogHasRoom /\ load_game /\ UNCHANGED <<pc, placing>>

ApiDisplay ==
    /\ pc = "api"
    /\ \E r \in BOOLEAN : display_grid(r)
    /\ UNCHANGED <<pc, placing>>

\* get_status and generate_game_report build a value from the fields,
\* which has to be defined, and assign nothing.
ApiStatus ==
    /\ pc = "api"
    /\ get_status.score = score
    /\ UNCHANGED vars

ApiReport ==
    /\ pc = "api"
    /\ generate_game_report.final_score = score
    /\ UNCHANGED vars

\* --------------------------------------------------------- play_game
\* One turn of the loop: display_grid(), read a command, dispatch it.
CliMove ==
    /\ pc = "loop" /\ ~game_over /\ HasRoom
    /\ \E d \in Directions : move_player(d)
    /\ UNCHANGED <<pc, placing>>

CliMap == pc = "loop" /\ ~game_over /\ HasRoom /\ use_map /\ UNCHANGED <<pc, placing>>

CliSave ==
    /\ pc = "loop" /\ ~game_over /\ MaySave
    /\ save_game
    /\ UNCHANGED <<pc, placing>>

\* "if loaded_game: game = loaded_game"; otherwise the game goes on.
CliLoad ==
    /\ pc = "loop" /\ ~game_over /\ SavedLogHasRoom
    /\ load_game
    /\ UNCHANGED <<pc, placing>>

\* Fault variant of CliQuit: the score of a game given up is recorded.
CliQuit_RecordsScore ==
    /\ pc = "loop" /\ ~game_over
    /\ check_high_scores(player_name, score)
    /\ pc' = "done"
    /\ UNCHANGED placing

\* "quit" confirmed breaks out of the loop; game_over is False there, so
\* lines 393-402 are skipped and play_game returns.
CliQuit ==
    /\ pc = "loop" /\ ~game_over
    /\ \E confirm \in {"y", "n"} :
            pc' = IF confirm = "y" THEN "done" ELSE pc
    /\ UNCHANGED <<gameVars, fileVars, ret, placing>>

CliInvalid == pc = "loop" /\ ~game_over /\ UNCHANGED vars

\* The loop condition fails because the game is over: lines 393-402 show
\* the final report and check the high scores.
CliGameOver ==
    /\ pc = "loop" /\ game_over
    /\ check_high_scores(player_name, score)
    /\ pc' = "done"
    /\ UNCHANGED placing

Next ==
    \/ ApiMove \/ ApiMap \/ ApiSave \/ ApiLoad
    \/ ApiDisplay \/ ApiStatus \/ ApiReport
    \/ CliMove \/ CliMap \/ CliSave \/ CliLoad
    \/ CliQuit \/ CliInvalid \/ CliGameOver

Spec == Init /\ [][Next]_vars

\* ------------------------------------- callers of check_high_scores
ScoreNames == {"ann", "bob"}

ScoreInputs == {150, 200, 300}

InitHS ==
    /\ NewGame("ann", Layout1, <<1, 1>>)
    /\ saved_game = [kind |-> "missing"]
    /\ high_scores \in {[kind |-> "missing"], [kind |-> "corrupt"]}
    /\ calls = 0
    /\ placing = None
    /\ pc = "scores"

ScoresCheck ==
    /\ pc = "scores" /\ calls < MaxCalls
    /\ \E name \in ScoreNames, points \in ScoreInputs :
            check_high_scores(name, points)
    /\ UNCHANGED <<pc, placing>>

ScoresDisplay == pc = "scores" /\ display_high_scores /\ UNCHANGED <<pc, placing>>

NextHS == ScoresCheck \/ ScoresDisplay

SpecHS == InitHS /\ [][NextHS]_vars

\* ------------------------------------------------------------ claims
\* A step that is a successful move_player call.
MovedStep == ret'.op = "move_player" /\ moves' = moves + 1

\* A step that replaces the game followed by the one load_game returned.
LoadedStep == ret'.op = "load_game" /\ ret'.val = TRUE

OffGrid(d) ==
    d \notin Directions \/ NewPos(d, player_pos) \notin Positions(grid_size)

\* C1: a move_player call with a direction that leads off the grid (or
\* with any other string) returns False, appends exactly one line to the
\* log and leaves position, score, moves, grid, inventory and game_over
\* as they were.
C1_InvalidMoveFrame ==
    [][\A d \in DirectionInputs :
        (/\ ret'.op = "move_player"
         /\ ret'.arg = d
         /\ game_log' # game_log
         /\ OffGrid(d))
        => (/\ ret'.val = FALSE
            /\ player_pos' = player_pos
            /\ score' = score
            /\ moves' = moves
            /\ grid' = grid
            /\ inventory' = inventory
            /\ game_over' = game_over
            /\ Len(game_log') = Len(game_log) + 1
            /\ SubSeq(game_log', 1, Len(game_log)) = game_log)]_vars

\* C1 witness: "up" was refused on the top row.
C1_Witness ==
    /\ ret = [op |-> "move_player", arg |-> "up", val |-> FALSE]
    /\ player_pos[1] = 0
    /\ game_log[Len(game_log)] = LogLine("Invalid move", <<"up">>)

\* C2: the Exit pays its 200 points once per game: a move onto the Exit
\* of a game that is already over adds nothing to the score.
C2_ExitBonusOnce ==
    [][(/\ game_over
        /\ MovedStep
        /\ CellAt(grid, player_pos') = "E")
       => score' = score]_vars

\* C3: check_high_scores returns True exactly when the entry appended by
\* the call is among the entries left after the sort and the cut to five.
NewEntrySurvives(old, points) ==
    LET tagged == [i \in 1 .. Len(old) + 1 |->
                     [score |-> IF i <= Len(old) THEN old[i].score ELSE points,
                      new |-> i = Len(old) + 1]]
        kept == KeepTop(SortByScoreDesc(tagged))
    IN  \E i \in DOMAIN kept : kept[i].new

C3_TrueIffNewEntryKept ==
    [][(ret'.op = "check_high_scores" /\ calls' = calls + 1)
       => (ret'.val = NewEntrySurvives(ReadHighScores(high_scores),
                                       ret'.arg[2]))]_vars

\* C4: save_game followed by load_game of the file just written gives a
\* game with the same score, moves, position, inventory and grid, also
\* after use_map has put "used_map" into the inventory.
C4_SaveLoadRoundTrip ==
    [][(ret.op = "save_game" /\ ret'.op = "load_game")
       => (/\ ret'.val = TRUE
           /\ score' = score
           /\ moves' = moves
           /\ player_pos' = player_pos
           /\ inventory' = inventory
           /\ grid' = grid)]_vars

\* C4 witness: a game was loaded whose inventory had been through use_map
\* and whose grid had lost items.
C4_Witness ==
    /\ ret = [op |-> "load_game", arg |-> None, val |-> TRUE]
    /\ "used_map" \in DOMAIN inventory
    /\ grid # Layout1
    /\ moves >= 2

\* C5: a successful move onto a Treasure adds exactly 100 and empties the
\* cell; an empty cell of a game stays empty; a move onto an empty cell
\* changes neither score nor inventory.
C5_TreasureOnce ==
    [][/\ (MovedStep /\ CellAt(grid, player_pos') = "T")
            => (/\ score' = score + 100
                /\ CellAt(grid', player_pos') = " ")
       /\ ~LoadedStep
            => \A p \in Positions(grid_size) :
                    CellAt(grid, p) = " " => CellAt(grid', p) = " "
       /\ (MovedStep /\ CellAt(grid, player_pos') = " ")
            => (score' = score /\ inventory' = inventory)]_vars

\* C5 witness: the player is back on a cell whose treasure was found on
\* an earlier move.
C5_Witness ==
    /\ ret = [op |-> "move_player", arg |-> "left", val |-> TRUE]
    /\ CellAt(Layout1, player_pos) = "T"
    /\ CellAt(grid, player_pos) = " "
    /\ score = 100
    /\ \E i \in 1 .. Len(game_log) - 2 :
            game_log[i] = LogLine("Found treasure", player_pos)

\* C6: a successful move onto a Trap costs one shield and no points when
\* a shield is held, and 50 points (shields staying 0) when none is; the
\* cell becomes empty either way.
C6_TrapShield ==
    [][(MovedStep /\ CellAt(grid, player_pos') = "X")
       => (/\ IF inventory["shields"] > 0
              THEN /\ inventory' = [inventory EXCEPT !["shields"] = @ - 1]
                   /\ score' = score
              ELSE /\ inventory' = inventory
                   /\ inventory'["shields"] = 0
                   /\ score' = score - 50
           /\ CellAt(grid', player_pos') = " ")]_vars

\* C6 witness: with one shield, two trap hits in a row cost 0 and then 50.
C6_Witness ==
    /\ Len(game_log) = 7
    /\ game_log[2].event = "Found shield"
    /\ game_log[4].event = "Shield used against trap"
    /\ game_log[6].event = "Hit by trap"
    /\ score = -50
    /\ inventory["shields"] = 0

\* C7: a successful move onto the Exit without a key changes neither
\* game_over (False), score, inventory nor grid; the player stands on the
\* Exit, moves has grown by 1 and play goes on.
C7_ExitWithoutKey ==
    [][(MovedStep /\ CellAt(grid, player_pos') = "E" /\ inventory["keys"] = 0)
       => (/\ game_over' = FALSE
           /\ score' = score
           /\ inventory' = inventory
           /\ grid' = grid
           /\ CellAt(grid', player_pos') = "E"
           /\ ret'.val = TRUE
           /\ pc' = pc
           /\ pc' # "done")]_vars

\* C7 witness: the player found the Exit without a key and has moved on.
C7_Witness ==
    /\ ret.op = "move_player" /\ ret.val = TRUE
    /\ ~game_over
    /\ inventory["keys"] = 0
    /\ CellAt(grid, player_pos) # "E"
    /\ Len(game_log) >= 3
    /\ game_log[Len(game_log) - 2].event = "Found exit but no key"

Sorted(list) ==
    \A i \in 1 .. Len(list) - 1 : list[i].score >= list[i + 1].score

\* C8: once check_high_scores has been called, the file holds a list of
\* at most 5 entries in non-increasing order of score.
C8_LeaderboardBounded ==
    calls > 0 =>
        /\ high_scores.kind = "json"
        /\ Len(ReadHighScores(high_scores)) <= 5
        /\ Sorted(ReadHighScores(high_scores))

\* C8 witness: a sixth score was cut off a full list of unequal scores.
C8_Witness ==
    /\ calls >= 6
    /\ ret.op = "check_high_scores" /\ ret.val = FALSE
    /\ Len(ReadHighScores(high_scores)) = 5
    /\ ReadHighScores(high_scores)[1].score > ReadHighScores(high_scores)[5].score

\* C9: game_over never goes from True to False, except that a caller of
\* load_game goes on with the new game it returned; a play_game session
\* never sees its game go back.
C9_GameOverMonotonic ==
    [][(game_over /\ ~(pc = "api" /\ LoadedStep)) => game_over']_vars

\* C9 witness: a game that is over has been moved off the Exit.
C9_Witness ==
    /\ game_over
    /\ ret.op = "move_player" /\ ret.val = TRUE
    /\ CellAt(grid, player_pos) # "E"

\* C10: the grid holds exactly one Exit and the player's position is one
\* pair of coordinates within the grid.
C10_OneExitOnePlayer ==
    /\ CountCells(grid, "E") = 1
    /\ Len(player_pos) = 2
    /\ player_pos \in Positions(grid_size)
    /\ Len(grid) = grid_size

\* C10 witness: a game saved on the Exit, key in hand, has been loaded.
C10_Witness ==
    /\ ret = [op |-> "load_game", arg |-> None, val |-> TRUE]
    /\ CellAt(grid, player_pos) = "E"
    /\ inventory["keys"] >= 1
    /\ score >= 200

\* ------------------------------------------------------ the constructor
\* __init__ step by step: the empty grid and the player's cell (lines
\* 29-32), then _place_items, then the inventory and the log.

\* The calls _place_items makes, in order: the symbol and the count.
PlaceCalls ==
    << <<"T", 3>>, <<"X", 4>>, <<"K", 2>>, <<"S", 2>>, <<"M", 1>>, <<"E", 1>> >>

EmptyGrid(n) == [i \in 1 .. n |-> [j \in 1 .. n |-> " "]]

\* Boards too small for the 13 items, explored with every random draw.
SmallGridSizes == 1 .. 3

\* On the 5 x 5 board the draws for a symbol are kept to the cells Layout1
\* gives it, the player's cell of Layout1 and one more cell.
DrawCells(sym, n) ==
    IF n \in SmallGridSizes THEN Positions(n)
    ELSE {p \in Positions(n) : CellAt(Layout1, p) = sym}
            \cup {<<1, 1>>, <<0, 0>>}

StartCells(n) ==
    IF n \in SmallGridSizes THEN Positions(n) ELSE StartPositions

\* Fault variant of CanPlace: an occupied cell is not spared.
CanPlace_IgnoresOccupied(g, pos, cell) == cell # pos

\* Line 80: the cell is empty and is not the player's.
CanPlace(g, pos, cell) == CellAt(g, cell) = " " /\ cell # pos

InitNew ==
    /\ player_name \in PlayerNames
    /\ grid_size \in SmallGridSizes \cup {DefaultGridSize}
    /\ score = 0
    /\ moves = 0
    /\ game_over = FALSE
    /\ grid = EmptyGrid(grid_size)
    /\ player_pos \in StartCells(grid_size)
    /\ inventory = None
    /\ game_log = << >>
    /\ saved_game = [kind |-> "missing"]
    /\ high_scores = [kind |-> "missing"]
    /\ calls = 0
    /\ ret = [op |-> "__init__", arg |-> None, val |-> None]
    /\ placing = [calls |-> PlaceCalls, placed |-> 0]
    /\ pc = "__init__"

Placing == pc = "__init__" /\ Len(placing.calls) > 0

\* One turn of the while loop of _place_random_items: a cell is drawn,
\* and taken if it is free.
PlaceTry ==
    /\ Placing
    /\ placing.placed < placing.calls[1][2]
    /\ \E cell \in DrawCells(placing.calls[1][1], grid_size) :
            IF CanPlace(grid, player_pos, cell)
            THEN /\ grid' = SetCell(grid, cell, placing.calls[1][1])
                 /\ placing' = [placing EXCEPT !.placed = @ + 1]
            ELSE UNCHANGED <<grid, placing>>
    /\ UNCHANGED <<player_name, grid_size, score, moves, game_over,
                   player_pos, inventory, game_log, fileVars, ret, pc>>

\* placed = count: the call returns and _place_items makes the next one.
PlaceReturn ==
    /\ Placing
    /\ placing.placed >= placing.calls[1][2]
    /\ placing' = [calls |-> Tail(placing.calls), placed |-> 0]
    /\ UNCHANGED <<gameVars, fileVars, ret, pc>>

\* Lines 38-46: the inventory, the log and its first line.
FinishInit ==
    /\ pc = "__init__" /\ Len(placing.calls) = 0
    /\ inventory' = NewInventory
    /\ game_log' = NewLog
    /\ placing' = None
    /\ pc' = "built"
    /\ UNCHANGED <<player_name, grid_size, score, moves, game_over, grid,
                   player_pos, fileVars, ret>>

NextNew == PlaceTry \/ PlaceReturn \/ FinishInit

SpecNew == InitNew /\ [][NextNew]_vars

\* ------------------------------------------------------ claims, continued
\* A step that is a successful move_player call, told by what it returns
\* and logs.
SuccessfulMove ==
    ret'.op = "move_player" /\ ret'.val = TRUE /\ game_log' # game_log

CountMoved(log) ==
    Cardinality({i \in DOMAIN log : log[i].event = "Moved"})

\* C11: moves grows by exactly 1 on a successful move_player and is left
\* alone by every other call on the game, so it equals the number of
\* successful moves the game has made (one "Moved" line each).
C11_MovesCountsSuccessfulMoves ==
    [][/\ SuccessfulMove => moves' = moves + 1
       /\ (~SuccessfulMove /\ ~LoadedStep) => moves' = moves
       /\ moves' = CountMoved(game_log')]_vars

\* C11 witness: two moves made, besides a refused move and a map used.
C11_Witness ==
    /\ moves = 2
    /\ ret.op = "use_map" /\ ret.val = TRUE
    /\ \E i \in DOMAIN game_log : game_log[i].event = "Invalid move"

\* C12: while _place_random_items still has an item to place there is a
\* free cell for it (empty and not the player's), so the loop can end,
\* whatever the grid size.
C12_PlacementNeverStarves ==
    (Placing /\ placing.placed < placing.calls[1][2])
        => \E cell \in Positions(grid_size) :
                CellAt(grid, cell) = " " /\ cell # player_pos

\* C13: load_game on a missing or unparsable file returns no game, and
\* the game in play (also that of play_game) keeps every field.
C13_FailedLoadKeepsGame ==
    [][(/\ saved_game.kind # "json"
        /\ ret'.op = "load_game"
        /\ (ret.op # "load_game" \/ ret.val # ret'.val))
       => (/\ ret'.val = FALSE
           /\ score' = score
           /\ moves' = moves
           /\ player_pos' = player_pos
           /\ grid' = grid
           /\ inventory' = inventory
           /\ game_log' = game_log
           /\ game_over' = game_over
           /\ pc' = pc)]_vars

\* C13 witness: play_game went on after a load from an unparsable file.
C13_Witness ==
    /\ pc = "loop"
    /\ saved_game.kind = "corrupt"
    /\ ret = [op |-> "load_game", arg |-> None, val |-> FALSE]
    /\ moves >= 1

\* C14: play_game checks the high scores exactly once, after the loop,
\* when the game is over, and never on a quit or while the game goes on.
C14_HighScoresOnceAtGameOver ==
    /\ pc = "loop" => (calls = 0 /\ high_scores.kind = "missing")
    /\ pc = "done" =>
        /\ calls = (IF game_over THEN 1 ELSE 0)
        /\ game_over <=> high_scores.kind = "json"
        /\ game_over => ret = [op |-> "check_high_scores",
                               arg |-> <<player_name, score>>, val |-> TRUE]

\* C14 witness: a session ended by the game being won.
C14_Witness ==
    /\ pc = "done" /\ game_over
    /\ calls = 1
    /\ ReadHighScores(high_scores) = <<[player |-> "ann", score |-> 200]>>

\* A step that is a use_map call.
MapStep ==
    /\ ret'.op = "use_map"
    /\ (ret.op # "use_map" \/ ret.val # ret'.val \/ game_log' # game_log)

\* C15: use_map with a map returns True, takes exactly one map and leaves
\* the reveal flag False; without a map it returns False and changes
\* nothing.  Keys, shields, score, moves, position, grid and game_over
\* are untouched either way.
C15_UseMapFrame ==
    [][MapStep
       => (/\ IF inventory["maps"] > 0
              THEN /\ ret'.val = TRUE
                   /\ inventory'["maps"] = inventory["maps"] - 1
                   /\ UsedMap(inventory') = FALSE
              ELSE /\ ret'.val = FALSE
                   /\ inventory' = inventory
                   /\ inventory'["maps"] = 0
                   /\ game_log' = game_log
           /\ inventory'["keys"] = inventory["keys"]
           /\ inventory'["shields"] = inventory["shields"]
           /\ score' = score
           /\ moves' = moves
           /\ player_pos' = player_pos
           /\ grid' = grid
           /\ game_over' = game_over)]_vars

\* C15 witness: the only map was used, and a second use_map was refused.
C15_Witness ==
    /\ ret = [op |-> "use_map", arg |-> None, val |-> FALSE]
    /\ "used_map" \in DOMAIN inventory
    /\ inventory["maps"] = 0
    /\ CountCells(grid, "M") = 0

Chebyshev(p, q) == Max(Abs(p[1] - q[1]), Abs(p[2] - q[2]))

\* C16: without reveal_all and with the reveal flag off, the picture has
\* "P" on the player's cell, the cell's own symbol on the other cells at
\* Chebyshev distance 1 and "?" on every cell at distance 2 or more.
C16_RenderRadiusOne ==
    ~UsedMap(inventory) =>
        \A p \in Positions(grid_size) :
            LET shown == Render(FALSE)[p[1] + 1][p[2] + 1]
            IN  /\ p = player_pos => shown = "P"
                /\ Chebyshev(p, player_pos) = 1 => shown = CellAt(grid, p)
                /\ Chebyshev(p, player_pos) >= 2 => shown = "?"

\* C16 witness: a turn of play_game (which draws the grid) with the
\* player on the top row: the Exit beside is shown, the trap two rows
\* down is hidden.
C16_Witness ==
    /\ pc = "loop" /\ moves >= 1
    /\ player_pos = <<0, 1>>
    /\ Render(FALSE)[1][3] = "E"
    /\ CellAt(grid, <<2, 0>>) = "X"
    /\ Render(FALSE)[3][1] = "?"

\* The cells holding the symbol of the k-th _place_random_items call while
\* the constructor is at its call number cur: all of them for a call that
\* has returned, those placed so far for the call under way, none after.
PlacedBy(k, cur) ==
    IF k < cur THEN PlaceCalls[k][2]
    ELSE IF k = cur THEN placing.placed ELSE 0

\* C17: a 5 x 5 game as constructed holds 3 T, 4 X, 2 K, 2 S, 1 M and
\* 1 E, every other cell is empty and the player's cell is empty; on the
\* way there each placement fills a cell that was empty, so no item
\* replaces another.
C17_ConstructedCounts ==
    /\ pc = "__init__" =>
        /\ CellAt(grid, player_pos) = " "
        /\ \A k \in DOMAIN PlaceCalls :
            CountCells(grid, PlaceCalls[k][1])
                = PlacedBy(k, Len(PlaceCalls) - Len(placing.calls) + 1)
    /\ (pc = "built" /\ grid_size = 5) =>
        /\ CellAt(grid, player_pos) = " "
        /\ CountCells(grid, "T") = 3
        /\ CountCells(grid, "X") = 4
        /\ CountCells(grid, "K") = 2
        /\ CountCells(grid, "S") = 2
        /\ CountCells(grid, "M") = 1
        /\ CountCells(grid, "E") = 1
        /\ CountCells(grid, " ") = 25 - 13

\* C17 witness: the constructor has finished with the grid Layout1.
C17_Witness ==
    /\ pc = "built"
    /\ grid = Layout1
    /\ player_pos = <<1, 1>>
    /\ game_log = NewLog

Conserved(g, inv) ==
    /\ inv["keys"] + CountCells(g, "K") = 2
    /\ inv["maps"] + CountCells(g, "M") <= 1
    /\ inv["shields"] + CountCells(g, "S") <= 2
    /\ inv["keys"] >= 0 /\ inv["maps"] >= 0 /\ inv["shields"] >= 0

NonEmptyCells(g) ==
    Cardinality({p \in Positions(Len(g)) : CellAt(g, p) # " "})

\* C18: keys held plus Key cells is always 2 (no key is spent, not at the
\* Exit either), maps plus Map cells at most 1, shields plus Shield cells
\* at most 2, no count is negative, and the non-empty cells of a game
\* never grow in number.
C18_ItemConservation ==
    [][/\ Conserved(grid, inventory)
       /\ Conserved(grid', inventory')
       /\ ~LoadedStep => NonEmptyCells(grid') <= NonEmptyCells(grid)]_vars

\* C18 witness: the Exit was opened and the key is still held.
C18_Witness ==
    /\ game_over
    /\ CellAt(grid, player_pos) = "E"
    /\ inventory["keys"] = 1
    /\ CountCells(grid, "K") = 1

\* C19: between calls the player's cell is Empty or the Exit.
C19_PlayerOnEmptyOrExit ==
    pc \in {"api", "loop", "done"} => CellAt(grid, player_pos) \in {" ", "E"}

\* C19 witness: the player stands where a key was picked up.
C19_Witness ==
    /\ CellAt(Layout1, player_pos) = "K"
    /\ CellAt(grid, player_pos) = " "
    /\ inventory["keys"] = 1

\* C20: the game load_game returns is not over, whatever the saved game
\* was.
C20_LoadedGameInProgress ==
    (ret.op = "load_game" /\ ret.val = TRUE) => ~game_over

\* C20 witness: a game saved after its victory was loaded; the player
\* stands on the Exit and the game is in progress.
C20_Witness ==
    /\ ret.op = "load_game" /\ ret.val = TRUE
    /\ ~game_over
    /\ CellAt(grid, player_pos) = "E"
    /\ \E i \in DOMAIN game_log :
            game_log[i].event = "Reached exit with key - Victory!"
====
